---- MODULE Spec2Model ----
(***************************************************************************)
(* Voice-agent configuration page: the agents table and its row-level      *)
(* security (supabase migration), the Agent Registry held by Index,        *)
(* the Configuration Panel (AgentConfig) and the Voice Session Controller  *)
(* (VoiceAgent).                                                           *)
(*                                                                         *)
(* Every await is a pair of steps: the request is issued by the handler,   *)
(* the collaborator settles it, and the handler's continuation runs when   *)
(* the response is delivered.  Responses are delivered in any order.       *)
(***************************************************************************)
EXTENDS Integers, Sequences, FiniteSets

VARIABLES
    store,            \* public.agents rows, in created_at order
    nextId,           \* next server-assigned id
    user_roles,       \* public.user_roles rows
    agents,           \* Index: useState<Agent[]>
    newAgentName,     \* AgentConfig form fields
    newAgentId,
    newAgentBio,
    newAgentLlm,
    editingAgentId,
    calls,            \* store requests in flight
    nextCall,         \* number of the next request
    toasts,           \* notifications shown by the last step
    sdkCalls,         \* voice SDK methods invoked by the last step
    ctl,              \* mounted VoiceAgent instances, by React key (agent.id)
    orphanMic,        \* getUserMedia promises pending for unmounted instances
    orphanStart,      \* startSession promises pending for unmounted instances
    orphanOpen,       \* sessions left open by unmounted instances
    user,             \* Index: useState<User | null> (an object reference)
    loading,          \* Index: useState(true)
    route,            \* current route: "index" or "auth"
    authSession,      \* identity provider: the current session's user object
    getSessionPending,\* the getSession() promise of the auth effect
    nextRef,          \* next fresh object reference
    loads             \* loadAgents runs of the load effect since sign-in

storeVars == <<store, nextId, user_roles>>
formVars  == <<newAgentName, newAgentId, newAgentBio, newAgentLlm, editingAgentId>>
callVars  == <<calls, nextCall>>
voiceVars == <<ctl, orphanMic, orphanStart, orphanOpen>>
authVars  == <<user, loading, route, authSession, getSessionPending, nextRef, loads>>
vars == <<store, nextId, user_roles, agents, newAgentName, newAgentId,
          newAgentBio, newAgentLlm, editingAgentId, calls, nextCall, toasts,
          sdkCalls, ctl, orphanMic, orphanStart, orphanOpen, user, loading,
          route, authSession, getSessionPending, nextRef, loads>>

----------------------------------------------------------------------------
(* Bounds of the model.                                                    *)

MaxCalls == 5       \* store requests issued in one behaviour
MaxPending == 2     \* microphone requests pending per controller
MaxRefs == 4        \* user objects handed out by the identity provider

----------------------------------------------------------------------------
(* Strings.  A string is a sequence of runs [c, n]: n copies of the        *)
(* character c, adjacent runs holding different characters.  This keeps    *)
(* 100- and 1000-character strings small without changing what trim,       *)
(* length and the pattern see.                                             *)

Str(c, n) == IF n = 0 THEN <<>> ELSE <<[c |-> c, n |-> n]>>

Cat(s, t) ==
    IF s = <<>> THEN t
    ELSE IF t = <<>> THEN s
    ELSE IF s[Len(s)].c = t[1].c
         THEN SubSeq(s, 1, Len(s) - 1)
              \o <<[c |-> t[1].c, n |-> s[Len(s)].n + t[1].n]>>
              \o Tail(t)
         ELSE s \o t

RECURSIVE Length(_)
Length(s) == IF s = <<>> THEN 0 ELSE Head(s).n + Length(Tail(s))

Empty == <<>>
\* JS null / undefined for an optional text value
Null == <<[c |-> "null", n |-> 0]>>
Undefined == <<[c |-> "undefined", n |-> 0]>>

WhiteSpace == {" "}
IdChars == {"a", "b", "_", "-", "7"}

\* String.prototype.trim
TrimStart(s) == IF s # <<>> /\ Head(s).c \in WhiteSpace THEN Tail(s) ELSE s
TrimEnd(s) ==
    IF s # <<>> /\ s[Len(s)].c \in WhiteSpace THEN SubSeq(s, 1, Len(s) - 1) ELSE s
Trim(s) == TrimEnd(TrimStart(s))

\* /^[a-zA-Z0-9_-]+$/.test(s)
MatchesIdPattern(s) == s # <<>> /\ \A i \in DOMAIN s : s[i].c \in IdChars

\* x || y on optional text: "", null and undefined are falsy
Falsy(s) == s \in {Empty, Null, Undefined}
OrElse(s, d) == IF Falsy(s) THEN d ELSE s

----------------------------------------------------------------------------
(* agentSchema (zod).  Each string schema runs its checks in the order     *)
(* they are chained, trim first; every failed check adds an issue, and     *)
(* the object schema collects the issues of its keys in key order.         *)

NameMin == 1
NameMax == 100
AgentIdMin == 3
AgentIdMax == 100
BioMax == 1000
LlmMax == 100

MsgNameRequired == "Agent name is required"
MsgNameMax == "Agent name must be less than 100 characters"
MsgIdPattern == "Agent ID can only contain letters, numbers, hyphens, and underscores"
MsgIdMin == "Agent ID must be at least 3 characters"
MsgIdMax == "Agent ID must be less than 100 characters"
MsgBioMax == "Bio must be less than 1000 characters"
MsgLlmMax == "LLM model name must be less than 100 characters"

Issue(failed, msg) == IF failed THEN <<msg>> ELSE <<>>

\* the name checks applied to the value as typed
NameIssuesNoTrim(v) ==
    Issue(Length(v) < NameMin, MsgNameRequired)
    \o Issue(Length(v) > NameMax, MsgNameMax)

NameIssues(v) ==
    LET t == Trim(v)
    IN  Issue(Length(t) < NameMin, MsgNameRequired)
        \o Issue(Length(t) > NameMax, MsgNameMax)

AgentIdIssues(v) ==
    LET t == Trim(v)
    IN  Issue(~MatchesIdPattern(t), MsgIdPattern)
        \o Issue(Length(t) < AgentIdMin, MsgIdMin)
        \o Issue(Length(t) > AgentIdMax, MsgIdMax)

BioIssues(v) ==
    IF v = Undefined THEN <<>> ELSE Issue(Length(Trim(v)) > BioMax, MsgBioMax)

LlmIssues(v) ==
    IF v = Undefined THEN <<>> ELSE Issue(Length(Trim(v)) > LlmMax, MsgLlmMax)

Parsed(v) == IF v = Undefined THEN Undefined ELSE Trim(v)

\* agentSchema.safeParse(input)
SafeParse(input) ==
    LET errors == NameIssues(input.name) \o AgentIdIssues(input.agentId)
                  \o BioIssues(input.bio) \o LlmIssues(input.llm)
    IN  [success |-> errors = <<>>,
         errors  |-> errors,
         data    |-> [name    |-> Parsed(input.name),
                      agentId |-> Parsed(input.agentId),
                      bio     |-> Parsed(input.bio),
                      llm     |-> Parsed(input.llm)]]

----------------------------------------------------------------------------
(* The agents table and its row-level security.                            *)

NoId == 0
NoUid == 0          \* auth.uid() IS NULL
Uid == 1            \* auth.uid() of the signed-in caller
OtherUid == 2       \* some other account

\* public.has_role(_user_id, _role)
has_role(_user_id, _role) ==
    \E r \in user_roles : r.user_id = _user_id /\ r.role = _role

Policy(name, cmd, using, check) ==
    [name |-> name, cmd |-> cmd, using |-> using, check |-> check]

\* the policies created with the table
OldPolicies ==
    { Policy("Anyone can view agents", "SELECT", "true", "none"),
      Policy("Anyone can insert agents", "INSERT", "none", "true"),
      Policy("Anyone can update agents", "UPDATE", "true", "none"),
      Policy("Anyone can delete agents", "DELETE", "true", "none") }

\* the drops without the one of the update policy
DroppedPoliciesKeepUpdate ==
    { "Anyone can delete agents", "Anyone can insert agents",
      "Anyone can view agents" }

\* DROP POLICY IF EXISTS ... ON public.agents
DroppedPolicies ==
    { "Anyone can delete agents", "Anyone can insert agents",
      "Anyone can update agents", "Anyone can view agents" }

\* CREATE POLICY ... ON public.agents
NewPolicies ==
    { Policy("Authenticated users can view agents", "SELECT", "uid_not_null", "none"),
      Policy("Only admins can manage agents", "ALL", "admin", "admin") }

\* the policies in force once the migration has run
AgentsPolicies ==
    {p \in OldPolicies : p.name \notin DroppedPolicies} \cup NewPolicies

PolicyExpr(e, uid) ==
    CASE e = "true" -> TRUE
      [] e = "uid_not_null" -> uid # NoUid
      [] e = "admin" -> has_role(uid, "admin")
      [] OTHER -> FALSE

\* permissive policies are OR-ed; with none applicable the row is denied
RlsUsing(cmd, uid) ==
    \E p \in AgentsPolicies :
        /\ p.cmd \in {cmd, "ALL"}
        /\ p.using # "none"
        /\ PolicyExpr(p.using, uid)

RlsCheck(cmd, uid) ==
    \E p \in AgentsPolicies :
        /\ p.cmd \in {cmd, "ALL"}
        /\ PolicyExpr(IF p.check = "none" THEN p.using ELSE p.check, uid)

MsgRls == "new row violates row-level security policy for table \"agents\""
MsgFetch == "Failed to fetch"

Row(id, f) ==
    [id |-> id, name |-> f.name, agent_id |-> f.agent_id, bio |-> f.bio, llm |-> f.llm]

NoFields == [name |-> Null, agent_id |-> Null, bio |-> Null, llm |-> Null]

RECURSIVE RowsWithout(_, _)
\* the rows of s whose id is not id
RowsWithout(s, id) ==
    IF s = <<>> THEN <<>>
    ELSE IF Head(s).id = id THEN RowsWithout(Tail(s), id)
    ELSE <<Head(s)>> \o RowsWithout(Tail(s), id)

\* INSERT INTO agents: WITH CHECK decides; id and created_at are assigned
InsertRows(s, id, f, uid) == IF RlsCheck("INSERT", uid) THEN Append(s, Row(id, f)) ELSE s
InsertError(uid) == IF RlsCheck("INSERT", uid) THEN "" ELSE MsgRls

\* UPDATE agents SET ... WHERE id = ...: rows USING hides are not touched,
\* and that is no error
UpdateRows(s, id, f, uid) ==
    IF RlsUsing("UPDATE", uid) /\ RlsCheck("UPDATE", uid)
    THEN [i \in DOMAIN s |-> IF s[i].id = id THEN Row(id, f) ELSE s[i]]
    ELSE s

\* DELETE FROM agents WHERE id = ...
DeleteRows(s, id, uid) == IF RlsUsing("DELETE", uid) THEN RowsWithout(s, id) ELSE s

\* SELECT * FROM agents ORDER BY created_at ASC
SelectRows(s, uid) == IF RlsUsing("SELECT", uid) THEN s ELSE <<>>

----------------------------------------------------------------------------
(* Requests to the store.                                                  *)

Mutations == {"insert", "update", "delete"}

Call(cid, op, id, f, uid) ==
    [cid |-> cid, op |-> op, id |-> id, fields |-> f, uid |-> uid,
     phase |-> "sent", error |-> "", data |-> <<>>]

PendingMutations == {c \in calls : c.op \in Mutations}

\* room for one more mutation and the reload every pending mutation may ask for
CanIssueMutation == (nextCall - 1) + Cardinality(PendingMutations) + 2 <= MaxCalls

CallerUid == IF authSession = 0 THEN NoUid ELSE Uid

\* toast({title, description}); key names the VoiceAgent that raised it
Toast(title, description) == [title |-> title, description |-> description, key |-> 0]
VoiceToast(title, description, k) == [title |-> title, description |-> description, key |-> k]

----------------------------------------------------------------------------
(* Mounting and unmounting VoiceAgent instances.  Index renders one        *)
(* VoiceAgent per registry entry, keyed by agent.id: an instance lives     *)
(* while its key stays in the registry.                                    *)

\* first render of VoiceAgent: useState(false) twice, and the SDK hook
\* starts disconnected.  The effect of lines 89-95 has no dependencies, so
\* its cleanup keeps the conversation object of this first render:
\* effectStatus is the status that object holds.
NewCtl ==
    LET conversation == [status |-> "disconnected", isSpeaking |-> FALSE]
    IN  [isPermissionGranted |-> FALSE,
         isInitializing |-> FALSE,
         status |-> conversation.status,
         isSpeaking |-> conversation.isSpeaking,
         micPending |-> 0,
         start |-> "none",
         effectStatus |-> conversation.status]

RECURSIVE Sum(_, _)
\* sum of f over the keys K
Sum(K, f) ==
    IF K = {} THEN 0
    ELSE LET k == CHOOSE x \in K : TRUE IN f[k] + Sum(K \ {k}, f)

\* the cleanup of the mount effect: endSession when the status it reads is connected
CleanupEnds(c) == c.effectStatus = "connected"

\* React unmounts the instances whose keys left and mounts those that came
Remount(newKeys) ==
    LET gone == DOMAIN ctl \ newKeys
        ended == {k \in gone : CleanupEnds(ctl[k])}
    IN  /\ ctl' = [k \in newKeys |-> IF k \in DOMAIN ctl THEN ctl[k] ELSE NewCtl]
        /\ sdkCalls' = {[op |-> "endSession", key |-> k] : k \in ended}
        /\ orphanOpen' = orphanOpen
              + Cardinality({k \in gone \ ended : ctl[k].status = "connected"})
        /\ orphanStart' = orphanStart
              + Cardinality({k \in gone : ctl[k].start = "pending"})
        /\ orphanMic' = orphanMic + Sum(gone, [k \in gone |-> ctl[k].micPending])

----------------------------------------------------------------------------
(* Index: the Agent Registry.                                              *)

\* data.map(agent => ({...})) of loadAgents
ToAgent(row) ==
    [id |-> row.id, name |-> row.name, agentId |-> row.agent_id,
     bio |-> OrElse(row.bio, Empty), llm |-> OrElse(row.llm, Empty)]

ToAgents(data) == [i \in DOMAIN data |-> ToAgent(data[i])]

AgentIds(as) == {as[i].id : i \in DOMAIN as}

\* loadAgents up to its await: the select is sent
LoadAgentsCall == Call(nextCall, "list", NoId, NoFields, CallerUid)

\* loadAgents after its await
LoadAgentsResponse(c) ==
    /\ c \in calls /\ c.op = "list" /\ c.phase = "done"
    /\ calls' = calls \ {c}
    /\ UNCHANGED <<nextCall, storeVars, formVars, authVars>>
    /\ IF c.error # ""
       THEN /\ toasts' = <<Toast("Error loading agents", c.error)>>
            /\ sdkCalls' = {}
            /\ UNCHANGED <<agents, voiceVars>>
       ELSE IF route # "index"
       THEN \* Index is gone: setAgents updates nothing
            /\ toasts' = <<>> /\ sdkCalls' = {}
            /\ UNCHANGED <<agents, voiceVars>>
       ELSE /\ agents' = ToAgents(c.data)
            /\ Remount(AgentIds(ToAgents(c.data)))
            /\ toasts' = <<>>

----------------------------------------------------------------------------
(* AgentConfig: the Configuration Panel.                                   *)

ClearForm ==
    /\ newAgentName' = Empty
    /\ newAgentId' = Empty
    /\ newAgentBio' = Empty
    /\ newAgentLlm' = Empty
    /\ editingAgentId' = NoId

FormInput ==
    [name |-> newAgentName,
     agentId |-> newAgentId,
     bio |-> OrElse(newAgentBio, Undefined),
     llm |-> OrElse(newAgentLlm, Undefined)]

\* the object handed to .insert() / .update()
Payload(validatedData) ==
    [name |-> validatedData.name,
     agent_id |-> validatedData.agentId,
     bio |-> OrElse(validatedData.bio, Null),
     llm |-> OrElse(validatedData.llm, Null)]

\* Index renders its page, and the panel in it, once loading is over
Rendered == route = "index" /\ ~loading

\* onChange of the four inputs
SetNewAgentName(v) ==
    /\ Rendered
    /\ newAgentName' = v
    /\ toasts' = <<>> /\ sdkCalls' = {}
    /\ UNCHANGED <<newAgentId, newAgentBio, newAgentLlm, editingAgentId, agents,
                   storeVars, callVars, voiceVars, authVars>>

SetNewAgentId(v) ==
    /\ Rendered
    /\ newAgentId' = v
    /\ toasts' = <<>> /\ sdkCalls' = {}
    /\ UNCHANGED <<newAgentName, newAgentBio, newAgentLlm, editingAgentId, agents,
                   storeVars, callVars, voiceVars, authVars>>

SetNewAgentBio(v) ==
    /\ Rendered
    /\ newAgentBio' = v
    /\ toasts' = <<>> /\ sdkCalls' = {}
    /\ UNCHANGED <<newAgentName, newAgentId, newAgentLlm, editingAgentId, agents,
                   storeVars, callVars, voiceVars, authVars>>

SetNewAgentLlm(v) ==
    /\ Rendered
    /\ newAgentLlm' = v
    /\ toasts' = <<>> /\ sdkCalls' = {}
    /\ UNCHANGED <<newAgentName, newAgentId, newAgentBio, editingAgentId, agents,
                   storeVars, callVars, voiceVars, authVars>>

\* addOrUpdateAgent up to its await.  The submit button carries no
\* disabled attribute: it can be clicked whatever is pending.
AddOrUpdateAgent ==
    LET validationResult == SafeParse(FormInput)
        validatedData == validationResult.data
    IN  /\ Rendered
        /\ sdkCalls' = {}
        /\ UNCHANGED <<agents, storeVars, formVars, voiceVars, authVars>>
        /\ IF ~validationResult.success
           THEN /\ toasts' = <<Toast("Invalid Input", validationResult.errors[1])>>
                /\ UNCHANGED callVars
           ELSE /\ CanIssueMutation
                /\ toasts' = <<>>
                /\ nextCall' = nextCall + 1
                /\ calls' = calls \cup
                     { IF editingAgentId # NoId
                       THEN Call(nextCall, "update", editingAgentId,
                                 Payload(validatedData), CallerUid)
                       ELSE Call(nextCall, "insert", NoId,
                                 Payload(validatedData), CallerUid) }

\* a mutation came back with an error: toast error.message and return
AfterMutationError(c) ==
    /\ toasts' = <<Toast("Error", c.error)>>
    /\ calls' = calls \ {c}
    /\ UNCHANGED <<nextCall, formVars>>

\* an error branch that falls through to the reset and the reload
AfterSubmitErrorClearsForm(c) ==
    /\ toasts' = <<Toast("Error", c.error)>>
    /\ ClearForm
    /\ calls' = (calls \ {c}) \cup {LoadAgentsCall}
    /\ nextCall' = nextCall + 1

\* addOrUpdateAgent after its await, error branch: toast and return
AfterSubmitError(c) == AfterMutationError(c)

\* addOrUpdateAgent after its await, success branch
AfterSubmitOk(c) ==
    /\ toasts' = <<Toast(IF c.op = "update" THEN "Agent Updated" ELSE "Agent Added",
                         "success")>>
    /\ ClearForm
    /\ calls' = (calls \ {c}) \cup {LoadAgentsCall}
    /\ nextCall' = nextCall + 1

AddOrUpdateAgentResponse(c) ==
    /\ c \in calls /\ c.op \in {"insert", "update"} /\ c.phase = "done"
    /\ sdkCalls' = {}
    /\ UNCHANGED <<agents, storeVars, voiceVars, authVars>>
    /\ IF c.error # "" THEN AfterSubmitError(c) ELSE AfterSubmitOk(c)

\* editAgent without the model label
EditAgentDropsLlm(agent) ==
    /\ Rendered
    /\ newAgentName' = agent.name
    /\ newAgentId' = agent.agentId
    /\ newAgentBio' = agent.bio
    /\ newAgentLlm' = Empty
    /\ editingAgentId' = agent.id
    /\ toasts' = <<>> /\ sdkCalls' = {}
    /\ UNCHANGED <<agents, storeVars, callVars, voiceVars, authVars>>

\* editAgent(agent)
EditAgent(agent) ==
    /\ Rendered
    /\ newAgentName' = agent.name
    /\ newAgentId' = agent.agentId
    /\ newAgentBio' = agent.bio
    /\ newAgentLlm' = OrElse(agent.llm, Empty)
    /\ editingAgentId' = agent.id
    /\ toasts' = <<>> /\ sdkCalls' = {}
    /\ UNCHANGED <<agents, storeVars, callVars, voiceVars, authVars>>

\* cancelEdit: the Cancel button is rendered in edit mode only
CancelEdit ==
    /\ Rendered
    /\ editingAgentId # NoId
    /\ ClearForm
    /\ toasts' = <<>> /\ sdkCalls' = {}
    /\ UNCHANGED <<agents, storeVars, callVars, voiceVars, authVars>>

\* a delete that asks for the reload at once, without awaiting the response
RemoveAgentReloadsAtOnce(id) ==
    /\ Rendered
    /\ CanIssueMutation
    /\ calls' = calls \cup {Call(nextCall, "delete", id, NoFields, CallerUid),
                             Call(nextCall + 1, "list", NoId, NoFields, CallerUid)}
    /\ nextCall' = nextCall + 2
    /\ toasts' = <<>> /\ sdkCalls' = {}
    /\ UNCHANGED <<agents, storeVars, formVars, voiceVars, authVars>>

\* removeAgent(id) up to its await
RemoveAgent(id) ==
    /\ Rendered
    /\ CanIssueMutation
    /\ calls' = calls \cup {Call(nextCall, "delete", id, NoFields, CallerUid)}
    /\ nextCall' = nextCall + 1
    /\ toasts' = <<>> /\ sdkCalls' = {}
    /\ UNCHANGED <<agents, storeVars, formVars, voiceVars, authVars>>

\* removeAgent after its await
RemoveAgentResponse(c) ==
    /\ c \in calls /\ c.op = "delete" /\ c.phase = "done"
    /\ sdkCalls' = {}
    /\ UNCHANGED <<agents, storeVars, voiceVars, authVars>>
    /\ IF c.error # ""
       THEN AfterMutationError(c)
       ELSE /\ toasts' = <<Toast("Agent Removed", "success")>>
            /\ calls' = (calls \ {c}) \cup {LoadAgentsCall}
            /\ nextCall' = nextCall + 1
            /\ UNCHANGED formVars

----------------------------------------------------------------------------
(* The store serving a request.                                            *)

Done(c, error, data) == [c EXCEPT !.phase = "done", !.error = error, !.data = data]

StoreServes(c) ==
    /\ c \in calls /\ c.phase = "sent"
    /\ toasts' = <<>> /\ sdkCalls' = {}
    /\ UNCHANGED <<agents, formVars, nextCall, voiceVars, authVars, user_roles>>
    /\ CASE c.op = "insert" ->
              /\ store' = InsertRows(store, nextId, c.fields, c.uid)
              /\ nextId' = IF store' = store THEN nextId ELSE nextId + 1
              /\ calls' = (calls \ {c}) \cup {Done(c, InsertError(c.uid), <<>>)}
         [] c.op = "update" ->
              /\ store' = UpdateRows(store, c.id, c.fields, c.uid)
              /\ calls' = (calls \ {c}) \cup {Done(c, "", <<>>)}
              /\ UNCHANGED nextId
         [] c.op = "delete" ->
              /\ store' = DeleteRows(store, c.id, c.uid)
              /\ calls' = (calls \ {c}) \cup {Done(c, "", <<>>)}
              /\ UNCHANGED nextId
         [] c.op = "list" ->
              /\ calls' = (calls \ {c}) \cup {Done(c, "", SelectRows(store, c.uid))}
              /\ UNCHANGED <<store, nextId>>

\* the request fails (network, storage-layer error): nothing is applied
StoreFails(c) ==
    /\ c \in calls /\ c.phase = "sent"
    /\ calls' = (calls \ {c}) \cup {Done(c, MsgFetch, <<>>)}
    /\ toasts' = <<>> /\ sdkCalls' = {}
    /\ UNCHANGED <<agents, formVars, nextCall, voiceVars, authVars, storeVars>>

----------------------------------------------------------------------------
(* VoiceAgent: the Voice Session Controller.  start follows the promise    *)
(* of conversation.startSession: "pending" until the session opens or      *)
(* fails, "opened" from the SDK reporting connected until the awaiting     *)
(* handler resumes.                                                        *)

OnlyVoice == <<agents, storeVars, formVars, callVars, authVars,
               orphanMic, orphanStart, orphanOpen>>

\* a first click that asks for the microphone and goes on to start the session
StartConversationChains(k) ==
    /\ Rendered
    /\ k \in DOMAIN ctl
    /\ ctl[k].status # "connected"
    /\ ~ctl[k].isInitializing
    /\ ctl' = [ctl EXCEPT ![k].isInitializing = TRUE,
                          ![k].isPermissionGranted = TRUE,
                          ![k].start = "pending",
                          ![k].status = "connecting"]
    /\ sdkCalls' = {[op |-> "startSession", key |-> k]}
    /\ toasts' = <<>>
    /\ UNCHANGED OnlyVoice

\* startConversation up to its await.  The Start button is rendered while
\* the status is not connected and is disabled while isInitializing.
StartConversation(k) ==
    /\ Rendered
    /\ k \in DOMAIN ctl
    /\ ctl[k].status # "connected"
    /\ ~ctl[k].isInitializing
    /\ toasts' = <<>>
    /\ UNCHANGED OnlyVoice
    /\ IF ~ctl[k].isPermissionGranted
       THEN \* requestMicrophoneAccess up to its await, then return
            /\ ctl[k].micPending < MaxPending
            /\ ctl' = [ctl EXCEPT ![k].micPending = @ + 1]
            /\ sdkCalls' = {}
       ELSE /\ ctl' = [ctl EXCEPT ![k].isInitializing = TRUE,
                                  ![k].start = "pending",
                                  ![k].status = "connecting"]
            /\ sdkCalls' = {[op |-> "startSession", key |-> k]}

\* requestMicrophoneAccess after its await: getUserMedia resolved
MicrophoneGranted(k) ==
    /\ k \in DOMAIN ctl
    /\ ctl[k].micPending > 0
    /\ ctl' = [ctl EXCEPT ![k].micPending = @ - 1, ![k].isPermissionGranted = TRUE]
    /\ toasts' = <<VoiceToast("Microphone Access Granted",
                              "You can now start a conversation", k)>>
    /\ sdkCalls' = {}
    /\ UNCHANGED OnlyVoice

\* requestMicrophoneAccess after its await: getUserMedia rejected
MicrophoneDenied(k) ==
    /\ k \in DOMAIN ctl
    /\ ctl[k].micPending > 0
    /\ ctl' = [ctl EXCEPT ![k].micPending = @ - 1]
    /\ toasts' = <<VoiceToast("Microphone Access Required",
                              "Please allow microphone access to use voice features", k)>>
    /\ sdkCalls' = {}
    /\ UNCHANGED OnlyVoice

\* the session opens: the SDK reports connected and calls onConnect
SessionConnected(k) ==
    /\ k \in DOMAIN ctl
    /\ ctl[k].start = "pending"
    /\ ctl' = [ctl EXCEPT ![k].status = "connected", ![k].start = "opened"]
    /\ toasts' = <<VoiceToast("Connected", "Now speaking with", k)>>
    /\ sdkCalls' = {}
    /\ UNCHANGED OnlyVoice

\* startConversation after its await, the promise fulfilled: finally
StartSessionResolved(k) ==
    /\ k \in DOMAIN ctl
    /\ ctl[k].start = "opened"
    /\ ctl' = [ctl EXCEPT ![k].start = "none", ![k].isInitializing = FALSE]
    /\ toasts' = <<>>
    /\ sdkCalls' = {}
    /\ UNCHANGED OnlyVoice

\* a rejected start whose handler has no finally block
StartSessionFailedNoFinally(k, viaOnError) ==
    /\ k \in DOMAIN ctl
    /\ ctl[k].start = "pending"
    /\ ctl' = [ctl EXCEPT ![k].start = "none", ![k].status = "disconnected"]
    /\ toasts' = <<VoiceToast("Failed to Start", "Could not connect to the agent", k)>>
    /\ sdkCalls' = {}
    /\ UNCHANGED OnlyVoice

\* startConversation after its await, the promise rejected: catch, finally.
\* Whether the SDK also calls onError for a failed start is its choice.
StartSessionFailed(k, viaOnError) ==
    /\ k \in DOMAIN ctl
    /\ ctl[k].start = "pending"
    /\ ctl' = [ctl EXCEPT ![k].start = "none", ![k].isInitializing = FALSE,
                          ![k].status = "disconnected"]
    /\ toasts' = (IF viaOnError
                  THEN <<VoiceToast("Connection Error",
                                    "Failed to connect to the agent. Please try again.", k)>>
                  ELSE <<>>)
                 \o <<VoiceToast("Failed to Start", "Could not connect to the agent", k)>>
    /\ sdkCalls' = {}
    /\ UNCHANGED OnlyVoice

\* stopConversation: the End button is rendered while connected
StopConversation(k) ==
    /\ Rendered
    /\ k \in DOMAIN ctl
    /\ ctl[k].status = "connected"
    /\ ctl' = [ctl EXCEPT ![k].status = "disconnected", ![k].isSpeaking = FALSE]
    /\ sdkCalls' = {[op |-> "endSession", key |-> k]}
    /\ toasts' = <<>>
    /\ UNCHANGED OnlyVoice

\* the agent starts or stops speaking
ModeChanged(k) ==
    /\ k \in DOMAIN ctl
    /\ ctl[k].status = "connected"
    /\ ctl' = [ctl EXCEPT ![k].isSpeaking = ~@]
    /\ toasts' = <<>>
    /\ sdkCalls' = {}
    /\ UNCHANGED OnlyVoice

\* the session drops: onDisconnect, after onError when an error caused it
SessionDropped(k, withError) ==
    /\ k \in DOMAIN ctl
    /\ ctl[k].status = "connected"
    /\ ctl' = [ctl EXCEPT ![k].status = "disconnected", ![k].isSpeaking = FALSE]
    /\ toasts' = IF withError
                 THEN <<VoiceToast("Connection Error",
                                   "Failed to connect to the agent. Please try again.", k)>>
                 ELSE <<>>
    /\ sdkCalls' = {}
    /\ UNCHANGED OnlyVoice

OnlyOrphans == <<agents, storeVars, formVars, callVars, authVars, ctl>>

\* promises of unmounted instances settle: the state setters do nothing,
\* the toasts still show
OrphanMicrophoneSettled(granted) ==
    /\ orphanMic > 0
    /\ orphanMic' = orphanMic - 1
    /\ toasts' = IF granted
                 THEN <<VoiceToast("Microphone Access Granted",
                                   "You can now start a conversation", NoId)>>
                 ELSE <<VoiceToast("Microphone Access Required",
                                   "Please allow microphone access to use voice features", NoId)>>
    /\ sdkCalls' = {}
    /\ UNCHANGED <<OnlyOrphans, orphanStart, orphanOpen>>

OrphanSessionConnected ==
    /\ orphanStart > 0
    /\ orphanStart' = orphanStart - 1
    /\ orphanOpen' = orphanOpen + 1
    /\ toasts' = <<VoiceToast("Connected", "Now speaking with", NoId)>>
    /\ sdkCalls' = {}
    /\ UNCHANGED <<OnlyOrphans, orphanMic>>

OrphanStartSessionFailed ==
    /\ orphanStart > 0
    /\ orphanStart' = orphanStart - 1
    /\ toasts' = <<VoiceToast("Failed to Start", "Could not connect to the agent", NoId)>>
    /\ sdkCalls' = {}
    /\ UNCHANGED <<OnlyOrphans, orphanMic, orphanOpen>>

OrphanSessionDropped ==
    /\ orphanOpen > 0
    /\ orphanOpen' = orphanOpen - 1
    /\ toasts' = <<>>
    /\ sdkCalls' = {}
    /\ UNCHANGED <<OnlyOrphans, orphanMic, orphanStart>>

----------------------------------------------------------------------------
(* Index: the auth gate.  user holds an object reference: the load effect  *)
(* depends on [user] and runs again whenever setUser stores an object      *)
(* that is not the one it held.                                            *)

NoUser == 0

\* navigate("/auth"): Index and everything under it unmounts, state is dropped
UnmountIndex ==
    /\ route' = "auth"
    /\ agents' = <<>>
    /\ ClearForm
    /\ user' = NoUser
    /\ loading' = TRUE
    /\ getSessionPending' = FALSE
    /\ Remount({})

\* setUser(u) and the effects of the render it causes
SetUser(u) ==
    /\ user' = u
    /\ IF u # user /\ u # NoUser
       THEN \* useEffect(..., [user]): loadAgents()
            /\ nextCall <= MaxCalls
            /\ calls' = calls \cup {Call(nextCall, "list", NoId, NoFields,
                                         IF authSession' = NoUser THEN NoUid ELSE Uid)}
            /\ nextCall' = nextCall + 1
            /\ loads' = loads + 1
       ELSE UNCHANGED <<calls, nextCall, loads>>

\* the user objects a session may arrive with: the one the provider handed
\* out last, or a new one (a parsed or refreshed session)
SessionUsers == {authSession} \cup (IF nextRef <= MaxRefs THEN {nextRef} ELSE {})

\* getSession().then(...)
GetSessionResolved(u) ==
    /\ route = "index" /\ getSessionPending
    /\ toasts' = <<>>
    /\ UNCHANGED storeVars
    /\ IF authSession = NoUser
       THEN /\ u = NoUser
            /\ UnmountIndex
            /\ UNCHANGED <<authSession, nextRef, loads, calls, nextCall>>
       ELSE /\ u \in SessionUsers
            /\ authSession' = u
            /\ nextRef' = IF u = nextRef THEN nextRef + 1 ELSE nextRef
            /\ SetUser(u)
            /\ loading' = FALSE
            /\ getSessionPending' = FALSE
            /\ sdkCalls' = {}
            /\ UNCHANGED <<route, agents, formVars, voiceVars>>

\* onAuthStateChange((event, session) => ...) with a session:
\* INITIAL_SESSION, SIGNED_IN, TOKEN_REFRESHED, USER_UPDATED
AuthStateChanged(u) ==
    /\ route = "index"
    /\ authSession # NoUser
    /\ u \in SessionUsers
    /\ authSession' = u
    /\ nextRef' = IF u = nextRef THEN nextRef + 1 ELSE nextRef
    /\ SetUser(u)
    /\ toasts' = <<>> /\ sdkCalls' = {}
    /\ UNCHANGED <<storeVars, route, loading, getSessionPending, agents, formVars,
                   voiceVars>>

\* Header.handleSignOut: the account menu is rendered when userEmail is set
HandleSignOut(ok) ==
    /\ Rendered
    /\ user # NoUser
    /\ UNCHANGED <<storeVars, callVars, nextRef, loads>>
    /\ IF ok
       THEN /\ authSession' = NoUser
            /\ UnmountIndex
            /\ toasts' = <<Toast("Signed out successfully", "")>>
       ELSE /\ toasts' = <<Toast("Error signing out", "")>>
            /\ sdkCalls' = {}
            /\ UNCHANGED <<authSession, route, user, loading, getSessionPending,
                           agents, formVars, voiceVars>>

\* the user signs in on the /auth route and is sent back: Index mounts
SignedIn ==
    /\ route = "auth"
    /\ nextRef <= MaxRefs
    /\ authSession' = nextRef
    /\ nextRef' = nextRef + 1
    /\ route' = "index"
    /\ getSessionPending' = TRUE
    /\ loads' = 0
    /\ toasts' = <<>> /\ sdkCalls' = {}
    /\ UNCHANGED <<storeVars, callVars, user, loading, agents, formVars, voiceVars>>

----------------------------------------------------------------------------
(* The page with a signed-in user: Configuration Panel, registry, store.   *)

\* what the user types into the form (inputs carry maxLength 100 / 1000)
TypedNames == {Str("a", 3)}
TypedIds == {Str("a", 2), Str("a", 3)}
TypedBios == {Str("b", 4)}
TypedLlms == {Str("7", 1)}

\* a record configured earlier
SeedRow ==
    Row(1, [name |-> Str("b", 5), agent_id |-> Str("_", 7),
            bio |-> Null, llm |-> Str("7", 2)])

AdminRoles == {[user_id |-> Uid, role |-> "admin"]}
PlainRoles == {[user_id |-> Uid, role |-> "user"], [user_id |-> OtherUid, role |-> "admin"]}

InitIdle ==
    /\ agents = <<>>
    /\ newAgentName = Empty /\ newAgentId = Empty
    /\ newAgentBio = Empty /\ newAgentLlm = Empty
    /\ editingAgentId = NoId
    /\ toasts = <<>> /\ sdkCalls = {}
    /\ ctl = <<>>
    /\ orphanMic = 0 /\ orphanStart = 0 /\ orphanOpen = 0

\* signed in, first render done, the load effect has just sent its select
InitSignedIn ==
    /\ user = 1 /\ authSession = 1 /\ nextRef = 2
    /\ loading = FALSE /\ route = "index" /\ getSessionPending = FALSE
    /\ loads = 1

Init ==
    /\ store \in {<<>>, <<SeedRow>>}
    /\ nextId = Len(store) + 1
    /\ user_roles \in {AdminRoles, PlainRoles}
    /\ InitIdle
    /\ InitSignedIn
    /\ calls = {Call(1, "list", NoId, NoFields, Uid)}
    /\ nextCall = 2

Next ==
    \/ \E v \in TypedNames : SetNewAgentName(v)
    \/ \E v \in TypedIds : SetNewAgentId(v)
    \/ AddOrUpdateAgent
    \/ \E c \in calls : AddOrUpdateAgentResponse(c)
    \/ \E i \in DOMAIN agents : EditAgent(agents[i])
    \/ CancelEdit
    \/ \E i \in DOMAIN agents : RemoveAgent(agents[i].id)
    \/ \E c \in calls : RemoveAgentResponse(c)
    \/ \E c \in calls : LoadAgentsResponse(c)
    \/ \E c \in calls : StoreServes(c)
    \/ \E c \in calls : StoreFails(c)

Spec == Init /\ [][Next]_vars

\* the same page once the first load has been delivered
InitLoaded ==
    /\ store \in {<<>>, <<SeedRow>>}
    /\ nextId = Len(store) + 1
    /\ user_roles \in {AdminRoles, PlainRoles}
    /\ agents = ToAgents(store)
    /\ ctl = [k \in AgentIds(agents) |-> NewCtl]
    /\ newAgentName = Empty /\ newAgentId = Empty
    /\ newAgentBio = Empty /\ newAgentLlm = Empty
    /\ editingAgentId = NoId
    /\ toasts = <<>> /\ sdkCalls = {}
    /\ orphanMic = 0 /\ orphanStart = 0 /\ orphanOpen = 0
    /\ InitSignedIn
    /\ calls = {}
    /\ nextCall = 2

\* ... while the user edits and deletes the records there are, changing
\* bio and model label, and no request fails on the way
NextOk ==
    \/ \E v \in TypedBios : SetNewAgentBio(v)
    \/ \E v \in TypedLlms : SetNewAgentLlm(v)
    \/ AddOrUpdateAgent
    \/ \E c \in calls : AddOrUpdateAgentResponse(c)
    \/ \E i \in DOMAIN agents : EditAgent(agents[i])
    \/ CancelEdit
    \/ \E i \in DOMAIN agents : RemoveAgent(agents[i].id)
    \/ \E c \in calls : RemoveAgentResponse(c)
    \/ \E c \in calls : LoadAgentsResponse(c)
    \/ \E c \in calls : StoreServes(c)

SpecOk == InitLoaded /\ [][NextOk]_vars

----------------------------------------------------------------------------
(* Submitting the form, over the field values that matter to the schema.   *)

Pad(l, s, r) == Cat(Cat(Str(" ", l), s), Str(" ", r))

\* the inputs carry maxLength 100 (1000 for the bio): longer values reach
\* the form only through editAgent, from records written by other clients
FormNames ==
    {Empty, Str(" ", 1), Str("a", 1), Pad(1, Str("a", 1), 1), Pad(1, Str("a", 99), 0),
     Str("a", 100), Str("a", 101)}
FormIds ==
    {Empty, Str(" ", 1), Str("a", 2), Pad(0, Str("a", 2), 1), Str("a", 3),
     Pad(0, Str("a", 3), 1), Pad(1, Str("a", 99), 0), Str("a", 100), Str("a", 101),
     Str("!", 2), Cat(Str("a", 3), Str("!", 1)), Str("!", 101)}
FormBios == {Empty, Str("b", 1000), Pad(0, Str("b", 999), 1), Str("b", 1001)}
FormLlms == {Empty, Str("7", 100), Pad(0, Str("7", 99), 1), Str("7", 101)}

\* the panel open on a loaded registry, the form holding any of these
\* values (typed, pasted, or pre-filled by editAgent from a stored record)
InitForm ==
    /\ store = <<SeedRow>>
    /\ nextId = 2
    /\ user_roles = AdminRoles
    /\ agents = ToAgents(store)
    /\ ctl = [k \in AgentIds(agents) |-> NewCtl]
    /\ newAgentName \in FormNames
    /\ newAgentId \in FormIds
    /\ newAgentBio \in FormBios
    /\ newAgentLlm \in FormLlms
    /\ editingAgentId \in {NoId} \cup AgentIds(agents)
    /\ toasts = <<>> /\ sdkCalls = {}
    /\ orphanMic = 0 /\ orphanStart = 0 /\ orphanOpen = 0
    /\ InitSignedIn
    /\ calls = {}
    /\ nextCall = 1

NextForm ==
    \/ AddOrUpdateAgent
    \/ \E c \in calls : AddOrUpdateAgentResponse(c)
    \/ \E c \in calls : LoadAgentsResponse(c)
    \/ \E c \in calls : StoreServes(c)
    \/ \E c \in calls : StoreFails(c)

SpecForm == InitForm /\ [][NextForm]_vars

----------------------------------------------------------------------------
(* The agent cards: two configured agents, an admin who may delete them    *)
(* or sign out while sessions are starting, open or closing.               *)

SeedRow2 ==
    Row(2, [name |-> Str("a", 3), agent_id |-> Str("a", 3),
            bio |-> Str("b", 4), llm |-> Null])

InitVoice ==
    /\ store = <<SeedRow, SeedRow2>>
    /\ nextId = 3
    /\ user_roles = AdminRoles
    /\ agents = ToAgents(store)
    /\ ctl = [k \in AgentIds(agents) |-> NewCtl]
    /\ newAgentName = Empty /\ newAgentId = Empty
    /\ newAgentBio = Empty /\ newAgentLlm = Empty
    /\ editingAgentId = NoId
    /\ toasts = <<>> /\ sdkCalls = {}
    /\ orphanMic = 0 /\ orphanStart = 0 /\ orphanOpen = 0
    /\ InitSignedIn
    /\ calls = {}
    /\ nextCall = 2

NextVoice ==
    \/ \E k \in DOMAIN ctl : StartConversation(k)
    \/ \E k \in DOMAIN ctl : MicrophoneGranted(k)
    \/ \E k \in DOMAIN ctl : MicrophoneDenied(k)
    \/ \E k \in DOMAIN ctl : SessionConnected(k)
    \/ \E k \in DOMAIN ctl : StartSessionResolved(k)
    \/ \E k \in DOMAIN ctl, viaOnError \in BOOLEAN : StartSessionFailed(k, viaOnError)
    \/ \E k \in DOMAIN ctl : StopConversation(k)
    \/ \E k \in DOMAIN ctl : ModeChanged(k)
    \/ \E k \in DOMAIN ctl, withError \in BOOLEAN : SessionDropped(k, withError)
    \/ \E granted \in BOOLEAN : OrphanMicrophoneSettled(granted)
    \/ OrphanSessionConnected
    \/ OrphanStartSessionFailed
    \/ OrphanSessionDropped
    \/ \E i \in DOMAIN agents : RemoveAgent(agents[i].id)
    \/ \E c \in calls : RemoveAgentResponse(c)
    \/ \E c \in calls : LoadAgentsResponse(c)
    \/ \E c \in calls : StoreServes(c)
    \/ \E ok \in BOOLEAN : HandleSignOut(ok)

SpecVoice == InitVoice /\ [][NextVoice]_vars

----------------------------------------------------------------------------
(* The auth gate: Index mounts, the provider reports sessions, the user    *)
(* signs out and in again.                                                 *)

InitAuth ==
    /\ store \in {<<>>, <<SeedRow>>}
    /\ nextId = Len(store) + 1
    /\ user_roles = AdminRoles
    /\ InitIdle
    /\ user = NoUser /\ loading = TRUE /\ route = "index"
    /\ getSessionPending = TRUE
    /\ authSession \in {NoUser, 1}
    /\ nextRef = 2
    /\ loads = 0
    /\ calls = {}
    /\ nextCall = 1

NextAuth ==
    \/ \E u \in {NoUser} \cup SessionUsers : GetSessionResolved(u)
    \/ \E u \in SessionUsers : AuthStateChanged(u)
    \/ \E ok \in BOOLEAN : HandleSignOut(ok)
    \/ SignedIn
    \/ \E c \in calls : LoadAgentsResponse(c)
    \/ \E c \in calls : StoreServes(c)
    \/ \E c \in calls : StoreFails(c)

SpecAuth == InitAuth /\ [][NextAuth]_vars

----------------------------------------------------------------------------
(* Claims about the Configuration Panel.                                   *)

Form == [name |-> newAgentName, agentId |-> newAgentId,
         bio |-> newAgentBio, llm |-> newAgentLlm]

NoMessage == "none"

\* the message of the first constraint the four values violate, fields in
\* the order name, externalAgentId, bio, llm
FirstViolation(name, id, bio, llm) ==
    IF Length(name) = 0 THEN MsgNameRequired
    ELSE IF Length(name) > 100 THEN MsgNameMax
    ELSE IF \E i \in DOMAIN id : id[i].c \notin IdChars THEN MsgIdPattern
    ELSE IF Length(id) = 0 THEN MsgIdPattern
    ELSE IF Length(id) < 3 THEN MsgIdMin
    ELSE IF Length(id) > 100 THEN MsgIdMax
    ELSE IF Length(bio) > 1000 THEN MsgBioMax
    ELSE IF Length(llm) > 100 THEN MsgLlmMax
    ELSE NoMessage

RawViolation == FirstViolation(newAgentName, newAgentId, newAgentBio, newAgentLlm)

TrimmedViolation ==
    FirstViolation(Trim(newAgentName), Trim(newAgentId),
                   Trim(newAgentBio), Trim(newAgentLlm))

\* C1 as stated: a submission whose fields, as typed, violate a constraint
\* sends nothing to the store and reports exactly the message of the first
\* violated constraint.
C1_RawViolationRejected ==
    [][(AddOrUpdateAgent /\ RawViolation # NoMessage)
        => /\ calls' = calls
           /\ toasts' = <<Toast("Invalid Input", RawViolation)>>]_vars

\* C1 amended: the constraints are those of the fields with leading and
\* trailing whitespace removed; a submission violating one of them sends
\* nothing to the store and reports exactly the message of the first one.
C1_TrimmedViolationRejected ==
    [][(AddOrUpdateAgent /\ TrimmedViolation # NoMessage)
        => /\ calls' = calls
           /\ toasts' = <<Toast("Invalid Input", TrimmedViolation)>>]_vars

\* a rejected submission in edit mode: the identifier is fine, the bio too
\* long, and only the bio message is shown
C1_Witness ==
    /\ toasts = <<Toast("Invalid Input", MsgBioMax)>>
    /\ TrimmedViolation = MsgBioMax
    /\ editingAgentId # NoId
    /\ calls = {}

\* C2: once no request is pending, the registry is the store's contents in
\* created_at order, whatever the order the reload responses arrived in.
C2_RegistryMatchesStore ==
    calls = {} => agents = ToAgents(store)

\* C3: at most one insert, update or delete is in flight at any time.
C3_OneMutationInFlight ==
    Cardinality(PendingMutations) <= 1

\* the continuation of request c runs in this step
Delivered(c) == c \in calls /\ c.phase = "done" /\ c \notin calls'

\* C8: a mutation that came back with an error leaves registry, form and
\* edit target as they were and sends nothing more (no reload, no retry);
\* a submission failing validation leaves form and edit target as they were.
C8_FailureLeavesState ==
    [][/\ \A c \in calls :
            (Delivered(c) /\ c.op \in Mutations /\ c.error # "")
            => /\ agents' = agents
               /\ formVars' = formVars
               /\ calls' = calls \ {c}
               /\ store' = store
       /\ (AddOrUpdateAgent /\ ~SafeParse(FormInput).success)
            => /\ formVars' = formVars
               /\ calls' = calls
               /\ agents' = agents]_vars

\* an update refused by the store while the form still holds the edit
C8_Witness ==
    /\ toasts = <<Toast("Error", MsgFetch)>>
    /\ editingAgentId # NoId
    /\ newAgentName # Empty
    /\ \A c \in calls : c.op = "list"

AgentOf(id) == CHOOSE a \in {agents[i] : i \in DOMAIN agents} : a.id = id

\* C9: entering edit mode copies the record's four fields into the form
\* and touches neither store, registry nor requests; a submit made in edit
\* mode is an update of the edited id; cancelling empties the form, leaves
\* edit mode and touches neither store, registry nor requests.
C9_EditAndCancel ==
    [][/\ (\E i \in DOMAIN agents : EditAgent(agents[i]))
            => /\ editingAgentId' \in AgentIds(agents)
               /\ newAgentName' = AgentOf(editingAgentId').name
               /\ newAgentId' = AgentOf(editingAgentId').agentId
               /\ newAgentBio' = AgentOf(editingAgentId').bio
               /\ newAgentLlm' = AgentOf(editingAgentId').llm
               /\ UNCHANGED <<store, agents, calls>>
       /\ (AddOrUpdateAgent /\ editingAgentId # NoId)
            => \A c \in calls' \ calls : c.op = "update" /\ c.id = editingAgentId
       /\ CancelEdit
            => /\ Form' = [name |-> Empty, agentId |-> Empty,
                           bio |-> Empty, llm |-> Empty]
               /\ editingAgentId' = NoId
               /\ UNCHANGED <<store, agents, calls>>]_vars

\* the seeded record is being edited and its update has been sent
C9_Witness ==
    /\ editingAgentId = 1
    /\ Form = [name |-> Str("b", 5), agentId |-> Str("_", 7),
               bio |-> Empty, llm |-> Str("7", 2)]
    /\ \E c \in calls : c.op = "update" /\ c.id = 1

\* C10: with the migration's policies in force, nothing a caller without
\* the admin role sends changes the table, and a select by a signed-in
\* caller returns every row.
C10_OnlyAdminsMutate ==
    [][/\ ~has_role(Uid, "admin") => store' = store
       /\ \A c \in calls' \ calls :
            (c.op = "list" /\ c.phase = "done" /\ c.error = "" /\ c.uid # NoUid)
            => c.data = store]_vars

\* a caller without the role has had an update and a delete served, and
\* the seeded row is still there
C10_Witness ==
    /\ ~has_role(Uid, "admin")
    /\ store = <<SeedRow>>
    /\ \E c \in calls : c.op = "update" /\ c.phase = "done" /\ c.error = ""
    /\ \E c \in calls : c.op = "delete" /\ c.phase = "done" /\ c.error = ""

----------------------------------------------------------------------------
(* Claims about the Voice Session Controller and the auth gate.            *)

\* the state of 4.3 a controller's flags show
StateOf(c) ==
    IF c.status = "connected" THEN "Connected"
    ELSE IF c.isInitializing THEN "Initializing"
    ELSE IF c.micPending > 0 THEN "AwaitingMicrophonePermission"
    ELSE "Idle"

EndSessionOf(k) == [op |-> "endSession", key |-> k]
StartSessionOf(k) == [op |-> "startSession", key |-> k]

\* C4: a controller unmounted while connected has endSession called on
\* its session in that step.
C4_UnmountEndsSession ==
    [][\A k \in DOMAIN ctl :
          (ctl[k].status = "connected" /\ k \notin DOMAIN ctl')
          => EndSessionOf(k) \in sdkCalls']_vars

\* C5: a Start click without microphone permission only asks for the
\* microphone (no Initializing, no startSession); the answer, granted or
\* denied, starts nothing either and leaves the controller Idle; and
\* startSession is only ever called by a Start click made with the
\* permission already granted.
C5_PermissionGate ==
    [][\A k \in DOMAIN ctl :
          /\ (StartConversation(k) /\ ~ctl[k].isPermissionGranted)
               => /\ ~ctl'[k].isInitializing
                  /\ sdkCalls' = {}
                  /\ StateOf(ctl'[k]) = "AwaitingMicrophonePermission"
          /\ (MicrophoneGranted(k) \/ MicrophoneDenied(k))
               => /\ sdkCalls' = {}
                  /\ ctl'[k].isInitializing = ctl[k].isInitializing
                  /\ ctl'[k].status = ctl[k].status
                  /\ (StateOf(ctl[k]) = "AwaitingMicrophonePermission"
                      /\ ctl[k].micPending = 1)
                       => StateOf(ctl'[k]) = "Idle"
          /\ StartSessionOf(k) \in sdkCalls'
               => StartConversation(k) /\ ctl[k].isPermissionGranted]_vars

\* permission was asked for by a click and granted: the controller is
\* Idle again and no session was started
C5_Witness ==
    \E k \in DOMAIN ctl :
        /\ toasts = <<VoiceToast("Microphone Access Granted",
                                 "You can now start a conversation", k)>>
        /\ ctl[k].isPermissionGranted
        /\ StateOf(ctl[k]) = "Idle"
        /\ ctl[k].start = "none"

\* C6: between a sign-in and the next sign-out the load effect calls
\* loadAgents once.
C6_OneLoadPerSignIn ==
    loads <= 1

\* C7: a controller shows a notification only in a step that changes its
\* state, and one notification at most in such a step.
C7_OneToastPerTransition ==
    [][\A k \in DOMAIN ctl \cap DOMAIN ctl' :
          LET mine == {i \in DOMAIN toasts' : toasts'[i].key = k}
          IN  mine # {}
              => /\ StateOf(ctl'[k]) # StateOf(ctl[k])
                 /\ Cardinality(mine) = 1]_vars

----------------------------------------------------------------------------
(* Claims about the order of mutations and reloads.                        *)

\* the selects sent in this step
Issued == {l \in calls' \ calls : l.op = "list" /\ l.phase = "sent"}

\* C11: a select is sent only by the step that delivers the response of a
\* mutation the store has served without error, one select for it and
\* numbered after it, so that the store serves the select after the
\* mutation; a step that sends a mutation, and a step that delivers a
\* mutation's error, send no select.
C11_ReloadAfterSuccess ==
    [][/\ \A l \in Issued :
            /\ Cardinality(Issued) = 1
            /\ \E c \in calls :
                  /\ Delivered(c) /\ c.op \in Mutations /\ c.error = ""
                  /\ c.cid < l.cid
                  /\ \A m \in calls' : m.cid # c.cid
       /\ \A c \in calls :
            (Delivered(c) /\ c.op \in Mutations /\ c.error # "") => Issued = {}
       /\ (\E c \in calls' \ calls : c.op \in Mutations /\ c.phase = "sent")
            => Issued = {}]_vars

\* an admin's delete has emptied the table and been reported; its reload
\* is on the way and the registry still shows the record
C11_Witness ==
    /\ toasts = <<Toast("Agent Removed", "success")>>
    /\ has_role(Uid, "admin")
    /\ store = <<>>
    /\ agents # <<>>
    /\ \E l \in calls : l.op = "list" /\ l.phase = "sent"

----------------------------------------------------------------------------
(* Claims about starting and holding a voice session.                      *)

\* the Start button is rendered while not connected, disabled while initializing
StartEnabled(c) == c.status # "connected" /\ ~c.isInitializing

\* C12: when startSession is rejected for a controller that is
\* Initializing, the controller is left not initializing and not connected,
\* its Start button enabled, and the "Failed to Start" notification is
\* shown; and a controller is initializing only while its startSession
\* promise is unsettled or its handler is about to resume.
C12_FailedStartReturnsToIdle ==
    [][\A k \in DOMAIN ctl :
          /\ (\E viaOnError \in BOOLEAN : StartSessionFailed(k, viaOnError))
               => /\ StateOf(ctl[k]) = "Initializing"
                  /\ ~ctl'[k].isInitializing
                  /\ ctl'[k].status # "connected"
                  /\ StartEnabled(ctl'[k])
                  /\ \E i \in DOMAIN toasts' :
                        toasts'[i] = VoiceToast("Failed to Start",
                                                "Could not connect to the agent", k)
          /\ (k \in DOMAIN ctl' /\ ctl'[k].isInitializing)
               => ctl'[k].start \in {"pending", "opened"}]_vars

\* a start was rejected: the card shows the failure and can be started again
C12_Witness ==
    \E k \in DOMAIN ctl :
        /\ toasts = <<VoiceToast("Failed to Start", "Could not connect to the agent", k)>>
        /\ ctl[k].isPermissionGranted
        /\ StateOf(ctl[k]) = "Idle"
        /\ StartEnabled(ctl[k])

\* what the card renders from the two flags and the speaking indicator
SpinnerShown(c) == c.isInitializing
WaveShown(c) == c.status = "connected"
SpeakingShown(c) == c.status = "connected" /\ c.isSpeaking

\* C13: no mounted controller has isInitializing set while its status is
\* connected (the card never shows the spinner and the sound wave
\* together), and the speaking indicator is shown only while connected.
C13_OneStateAtATime ==
    \A k \in DOMAIN ctl :
        /\ ~(SpinnerShown(ctl[k]) /\ WaveShown(ctl[k]))
        /\ SpeakingShown(ctl[k]) => StateOf(ctl[k]) = "Connected"

\* C15: a session that opens for a controller unmounted while its
\* startSession was pending is closed: the settling of such a start leaves
\* no more sessions open without a mounted controller than there were.
C15_NoOrphanSession ==
    [][orphanStart' < orphanStart => orphanOpen' <= orphanOpen]_vars

----------------------------------------------------------------------------
(* Claims about the edit target.                                           *)

StoreIds == {store[i].id : i \in DOMAIN store}

\* C14: with no request pending, a panel in edit mode targets the id of a
\* record that is in the store and in the registry.
C14_EditTargetExists ==
    (editingAgentId # NoId /\ calls = {})
        => editingAgentId \in StoreIds \cap AgentIds(agents)

====
